---- MODULE Spec2Model ----
(***************************************************************************)
(* Message accumulation and debounced dispatch of the Telegram relay:      *)
(* the webhook handler (src/pages/api/telegram.ts, the deployed iteration  *)
(* at lines 861-1470), the cron sweep (src/pages/api/cron.ts), the manual  *)
(* sweep (src/pages/api/process-pending.ts) and the per-chat endpoint      *)
(* (src/pages/api/telegram/process.ts), all running concurrently against   *)
(* one MongoDB collection.  Every await of the handlers is a step.         *)
(***************************************************************************)
EXTENDS Integers, Sequences, FiniteSets, TLC

(* ---- program constants ------------------------------------------------ *)
CONVERSATION_WINDOW_MINUTES == 30
BATCH_TIME_WINDOW_MS == 2000
MAX_CONVERSATION_HISTORY == 15
FORCED_DELAY_MS == 15000
expireAfterSeconds == 3600

(* ---- bounds of the model ---------------------------------------------- *)
MaxEvents == 2      \* inbound webhook events (each stores one document)
MaxTicks == 2       \* clock advances
MaxCount == 1       \* saturation of the oracle-call counters
MaxAttempts == 2     \* oracle calls and sends counted per dispatch
MaxSweepers == 1    \* concurrent cron / manual / per-chat invocations
MaxHistory == 17    \* answered messages in a store with a long history
MaxInbound == 3     \* messages the WhatsApp bot adds, messages the in-memory variant receives

Payloads == {"text", "video", "start"}
\* clock steps: inside the batch window, just short of the forced delay, and
\* the forced delay itself
TickDeltas ==
    {BATCH_TIME_WINDOW_MS \div 2,
     FORCED_DELAY_MS - BATCH_TIME_WINDOW_MS \div 2,
     FORCED_DELAY_MS}
Webhooks == 1..MaxEvents
Sweepers == 1..MaxSweepers
NoTime == -1        \* waitUntil: null or absent

VARIABLES
    chats,        \* the conversations that exist (fixed at the start)
    conversationsCollection,         \* the collection, in insertion order; _id = index
    now,          \* wall clock, ms
    ticks,        \* clock advances so far
    hook,         \* webhook invocations: position and locals
    sweep,        \* cron / manual / per-chat invocations: position and locals
    oracleCount,  \* per document: oracle calls that had it as claimed content
    stalled,      \* some invocation was suspended for a whole forced delay
    conversations,    \* WhatsApp bot (src/utils/conversations.js): the Map of histories
    received,         \* WhatsApp bot: messages added so far, numbers the next one
    debounceTimers,   \* in-memory debounce (src/unnamed/part_001): per instance, chat -> armed timer
    lastMessageData,  \* in-memory debounce: per instance, chat -> last message stored
    arrived,          \* in-memory debounce: the chats of the inbound messages, in arrival order
    processed         \* in-memory debounce: the calls of processMessage, in order

\* the state of the WhatsApp bot and of the in-memory debounce variant; the
\* handlers of the relay touch neither
whatsapp == <<conversations, received>>

debounce == <<debounceTimers, lastMessageData, arrived, processed>>

vars == <<chats, conversationsCollection, now, ticks, hook, sweep, oracleCount, stalled,
          whatsapp, debounce>>

(* ---- store queries ---------------------------------------------------- *)
DocIds == DOMAIN conversationsCollection

Max(S) == CHOOSE x \in S : \A y \in S : y <= x

Min(S) == CHOOSE x \in S : \A y \in S : x <= y

Inc(n) == IF n < MaxCount THEN n + 1 ELSE MaxCount

\* one more oracle call or send of the running dispatch
More(n) == IF n < MaxAttempts THEN n + 1 ELSE MaxAttempts

\* a variant of the query with waitUntil strictly before at ($lt)
waitingMessagesReady_strict(c, at) ==
    {d \in DocIds : /\ conversationsCollection[d].chatId = c
                    /\ conversationsCollection[d].waitingForDelay
                    /\ conversationsCollection[d].waitUntil # NoTime
                    /\ conversationsCollection[d].waitUntil < at}

\* find({chatId, waitingForDelay: true, waitUntil: {$lte: at}})
waitingMessagesReady(c, at) ==
    {d \in DocIds : /\ conversationsCollection[d].chatId = c
                    /\ conversationsCollection[d].waitingForDelay
                    /\ conversationsCollection[d].waitUntil # NoTime
                    /\ conversationsCollection[d].waitUntil <= at}

\* find({waitingForDelay: true, waitUntil: {$lte: at}}), every chat
readyMessages(at) == UNION {waitingMessagesReady(c, at) : c \in chats}

\* find({chatId, status})
WithStatus(c, s) ==
    {d \in DocIds : /\ conversationsCollection[d].chatId = c
                    /\ conversationsCollection[d].status = s}

\* countDocuments({chatId, message_id: {$ne}, timestamp: {$gte: cutoff}, status: "pending"})
recentCount(c, mid, at) ==
    Cardinality({d \in WithStatus(c, "pending") :
                    /\ conversationsCollection[d].message_id # mid
                    /\ conversationsCollection[d].timestamp >= at - BATCH_TIME_WINDOW_MS})

\* find(...).sort({timestamp: 1}).toArray(): ascending by timestamp; documents
\* of equal timestamp come in the order the store keeps them, which is taken
\* to be insertion order
RECURSIVE Ascending(_)
Ascending(S) ==
    IF S = {} THEN <<>>
    ELSE LET d == CHOOSE x \in S : \A y \in S :
                     \/ conversationsCollection[x].timestamp < conversationsCollection[y].timestamp
                     \/ /\ conversationsCollection[x].timestamp = conversationsCollection[y].timestamp
                        /\ x <= y
         IN <<d>> \o Ascending(S \ {d})

\* find(...).sort({timestamp: -1}).limit(n).toArray()
RECURSIVE Descending(_)
Descending(S) ==
    IF S = {} THEN <<>>
    ELSE LET d == CHOOSE x \in S : \A y \in S :
                     \/ conversationsCollection[x].timestamp > conversationsCollection[y].timestamp
                     \/ /\ conversationsCollection[x].timestamp = conversationsCollection[y].timestamp
                        /\ x <= y
         IN <<d>> \o Descending(S \ {d})

\* a variant of the limit that keeps the n oldest documents
MostRecent_oldest(S, n) ==
    IF Cardinality(S) <= n THEN S
    ELSE {Ascending(S)[i] : i \in 1..n}

\* the n most recent documents of S (sort timestamp descending, limit n)
MostRecent(S, n) ==
    IF Cardinality(S) <= n THEN S
    ELSE {Descending(S)[i] : i \in 1..n}

\* find({chatId, status: "processed", timestamp: {$gte: at - window}}).sort(-1).limit(15)
historyMessages(c, at) ==
    MostRecent({d \in WithStatus(c, "processed") :
                   conversationsCollection[d].timestamp >= at - CONVERSATION_WINDOW_MINUTES * 60 * 1000},
               MAX_CONVERSATION_HISTORY)

reverse(q) == [i \in 1..Len(q) |-> q[Len(q) + 1 - i]]

\* Array.prototype.sort((a, b) => a.timestamp - b.timestamp): a stable sort,
\* elements that compare equal keep their order
RECURSIVE sort(_)
sort(q) ==
    IF q = <<>> THEN q
    ELSE LET front == sort(SubSeq(q, 1, Len(q) - 1))
             x == q[Len(q)]
             k == Cardinality({i \in 1..Len(front) :
                     conversationsCollection[front[i]].timestamp
                         <= conversationsCollection[x].timestamp})
         IN SubSeq(front, 1, k) \o <<x>> \o SubSeq(front, k + 1, Len(front))

\* processConversation: [...historyMessages.reverse(), ...messagesToProcess].sort(...)
processConversation_allMessages(c, at, batch) ==
    sort(reverse(Descending(historyMessages(c, at))) \o Ascending(batch))

\* processConversationFromCron: [...historyMessages, ...messagesToProcess].sort(...)
processConversationFromCron_allMessages(c, at, batch) ==
    sort(Descending(historyMessages(c, at)) \o Ascending(batch))

\* a document contributes a content part unless it is a command or an
\* unsupported type (text not starting with '/', voice, photo contribute)
YieldsContent(d) == conversationsCollection[d].payload \in {"text", "voice", "photo"}

\* the messages whose content has to be fetched: getFileLink, download,
\* transcription
Media(q) ==
    {q[i] : i \in {j \in 1..Len(q) :
                     conversationsCollection[q[j]].payload \in {"voice", "photo"}}}

\* a variant of the content loop that skips a message whose media failed
RECURSIVE contentParts_skip(_, _)
contentParts_skip(q, failed) ==
    IF q = <<>> THEN <<>>
    ELSE LET d == Head(q)
             k == conversationsCollection[d].payload
             parts ==
                 IF d \in failed THEN <<>>
                 ELSE IF k \in {"text", "voice"} THEN <<[of |-> d, part |-> k]>>
                 ELSE IF k = "photo"
                      THEN <<[of |-> d, part |-> "prompt"], [of |-> d, part |-> "image_url"]>>
                 ELSE <<>>
         IN parts \o contentParts_skip(Tail(q), failed)

\* the loop over allMessages that fills userMessageContent: text is pushed as
\* it is, a voice message as its transcript, a photo as a prompt and the image;
\* a failed transcription or download pushes a fixed text in its place;
\* commands and other message types push nothing
RECURSIVE contentParts(_, _)
contentParts(q, failed) ==
    IF q = <<>> THEN <<>>
    ELSE LET d == Head(q)
             k == conversationsCollection[d].payload
             parts ==
                 IF k = "text" THEN <<[of |-> d, part |-> "text"]>>
                 ELSE IF k = "voice"
                      THEN IF d \in failed
                           THEN <<[of |-> d, part |-> "placeholder"]>>
                           ELSE <<[of |-> d, part |-> "transcript"]>>
                 ELSE IF k = "photo"
                      THEN IF d \in failed
                           THEN <<[of |-> d, part |-> "placeholder"]>>
                           ELSE <<[of |-> d, part |-> "prompt"],
                                  [of |-> d, part |-> "image_url"]>>
                 ELSE <<>>
         IN parts \o contentParts(Tail(q), failed)

\* userMessageContent.length > 0 for history + messagesToProcess
HasContent(history, batch) == \E d \in history \cup batch : YieldsContent(d)

SetStatus(S, s) ==
    [d \in DocIds |->
        IF d \in S
        THEN [conversationsCollection[d] EXCEPT !.status = s]
        ELSE conversationsCollection[d]]

\* a variant of the claim's update that sets the status only
ClaimDocs_statusOnly(S) ==
    [d \in DocIds |->
        IF d \in S
        THEN [conversationsCollection[d] EXCEPT !.status = "processing"]
        ELSE conversationsCollection[d]]

\* $set: {status: "processing", waitingForDelay: false, waitUntil: null}
ClaimDocs(S) ==
    [d \in DocIds |->
        IF d \in S
        THEN [conversationsCollection[d] EXCEPT !.status = "processing",
                             !.waitingForDelay = FALSE,
                             !.waitUntil = NoTime]
        ELSE conversationsCollection[d]]

NewDoc(c, mid, k, s) ==
    [chatId |-> c, message_id |-> mid, payload |-> k, timestamp |-> now,
     status |-> s, waitingForDelay |-> FALSE, waitUntil |-> NoTime]

InsertOne(doc) ==
    /\ conversationsCollection' = Append(conversationsCollection, doc)
    /\ oracleCount' = Append(oracleCount, [hook |-> 0, sweep |-> 0, process |-> 0])

\* the oracle is called with batch as the claimed content
CountOracle(batch, who) ==
    oracleCount' = [d \in DOMAIN oracleCount |->
                      IF d \in batch
                      THEN [oracleCount[d] EXCEPT ![who] = Inc(@)]
                      ELSE oracleCount[d]]

(* ---- invocation records ----------------------------------------------- *)
HookIdle ==
    [pc |-> "idle", method |-> "none", body |-> "none", response |-> 0,
     chat |-> 0, mid |-> 0, payload |-> "none",
     force |-> FALSE, t |-> 0, claimed |-> {}, batch |-> {},
     all |-> <<>>, failed |-> {}, content |-> <<>>,
     calls |-> 0, sends |-> 0, outcome |-> "none", wrote |-> "none"]

HookDone == [HookIdle EXCEPT !.pc = "done"]

\* no request: the run was started by the scheduler's own trigger
NoRequest == [issuer |-> "none", userAgent |-> "none", authorization |-> "none"]

SweepIdle ==
    [pc |-> "idle", request |-> NoRequest, response |-> 0,
     kind |-> "none", now |-> 0, ready |-> {}, todo |-> {},
     chat |-> 0, claimed |-> {}, batch |-> {},
     all |-> <<>>, failed |-> {}, content |-> <<>>,
     calls |-> 0, sends |-> 0, outcome |-> "none", wrote |-> "none"]

(* ---- the other programs of the repository, not started ------------------ *)
WaUsers == {"u1", "u2"}

NoConversation == [messages |-> <<>>, lastUpdated |-> -1]    \* !conversations.has(userId)

Instances == {1, 2}    \* process instances of the in-memory variant

NoTimer == -1          \* debounceTimers.get(chatId) === undefined

NoMessage == 0         \* lastMessageData.get(chatId) === undefined

WhatsAppIdle ==
    /\ conversations = [u \in WaUsers |-> NoConversation]
    /\ received = 0

DebounceIdle ==
    /\ debounceTimers = [i \in Instances |-> [c \in {1, 2} |-> NoTimer]]
    /\ lastMessageData = [i \in Instances |-> [c \in {1, 2} |-> NoMessage]]
    /\ arrived = <<>>
    /\ processed = <<>>

Init ==
    /\ chats = {1}
    /\ conversationsCollection = <<>>
    /\ now = 0
    /\ ticks = 0
    /\ hook = [w \in Webhooks |-> HookIdle]
    /\ sweep = [s \in Sweepers |-> SweepIdle]
    /\ oracleCount = <<>>
    /\ stalled = FALSE
    /\ WhatsAppIdle
    /\ DebounceIdle

(* ---- the clock -------------------------------------------------------- *)
InFlight ==
    \/ \E w \in Webhooks : hook[w].pc \notin {"idle", "done"}
    \/ \E s \in Sweepers : sweep[s].pc # "idle"

Tick ==
    /\ ticks < MaxTicks
    /\ \E delta \in TickDeltas :
          /\ now' = now + delta
          /\ stalled' = (stalled \/ (delta >= BATCH_TIME_WINDOW_MS /\ InFlight))
    /\ ticks' = ticks + 1
    /\ UNCHANGED <<whatsapp, debounce, chats, conversationsCollection, hook, sweep, oracleCount>>

(* ---- webhook handler, telegram.ts ------------------------------------- *)
\* a re-delivered event carries the payload of the first delivery
SameEvent(c, mid, k) ==
    /\ \A d \in DocIds :
          (conversationsCollection[d].chatId = c /\ conversationsCollection[d].message_id = mid)
              => conversationsCollection[d].payload = k
    /\ \A w \in Webhooks :
          (hook[w].chat = c /\ hook[w].mid = mid /\ hook[w].payload # "none")
              => hook[w].payload = k

\* invocations are numbered in the order their events arrive
InOrder(w) == IF w = 1 THEN TRUE ELSE hook[w - 1].pc # "idle"

\* a variant of the '/start' branch that stores the command like any message
handler_start_pending(w) ==
    /\ hook[w].pc = "idle"
    /\ InOrder(w)
    /\ \E c \in chats, mid \in 1..w :
          /\ SameEvent(c, mid, "start")
          /\ InsertOne(NewDoc(c, mid, "start", "pending"))
    /\ \E ok \in BOOLEAN :
          hook' = [hook EXCEPT ![w] =
                     [HookDone EXCEPT !.sends = 1,
                                      !.outcome = IF ok THEN "greeted" ELSE "failed"]]
    /\ UNCHANGED <<whatsapp, debounce, chats, stalled, now, ticks, sweep>>

\* '/start': stored as processed, then the greeting is sent (a failing send
\* lands in the handler's catch), nothing else
handler_start(w) ==
    /\ hook[w].pc = "idle"
    /\ InOrder(w)
    /\ \E c \in chats, mid \in 1..w :
          /\ SameEvent(c, mid, "start")
          /\ InsertOne(NewDoc(c, mid, "start", "processed"))
    /\ \E ok \in BOOLEAN :
          hook' = [hook EXCEPT ![w] =
                     [HookDone EXCEPT !.sends = 1,
                                      !.outcome = IF ok THEN "greeted" ELSE "failed"]]
    /\ UNCHANGED <<whatsapp, debounce, chats, stalled, now, ticks, sweep>>

\* a message arrives: look for waiting messages whose time has passed
handler_waitingMessagesReady(w) ==
    /\ hook[w].pc = "idle"
    /\ InOrder(w)
    /\ \E c \in chats, mid \in 1..w, k \in Payloads \ {"start"} :
          /\ SameEvent(c, mid, k)
          /\ hook' = [hook EXCEPT ![w] =
                        [HookIdle EXCEPT !.pc = "h_insert", !.chat = c, !.mid = mid,
                                         !.payload = k,
                                         !.force = (waitingMessagesReady(c, now) # {})]]
    /\ UNCHANGED <<whatsapp, debounce, chats, stalled, conversationsCollection, now, ticks, sweep, oracleCount>>

\* insertOne({..., timestamp: new Date(), status: "pending"})
handler_insertOne(w) ==
    /\ hook[w].pc = "h_insert"
    /\ InsertOne(NewDoc(hook[w].chat, hook[w].mid, hook[w].payload, "pending"))
    /\ hook' = [hook EXCEPT ![w].pc = "pm_count", ![w].payload = "none"]
    /\ UNCHANGED <<whatsapp, debounce, chats, stalled, now, ticks, sweep>>

\* processMessagesForChat, step 1: recent messages of a burst postpone
processMessagesForChat_recentCount(w) ==
    /\ hook[w].pc = "pm_count"
    /\ hook' = [hook EXCEPT ![w] =
                  IF recentCount(hook[w].chat, hook[w].mid, now) > 0 /\ ~hook[w].force
                  THEN HookDone
                  ELSE [hook[w] EXCEPT !.pc = "pm_find"]]
    /\ UNCHANGED <<whatsapp, debounce, chats, stalled, conversationsCollection, now, ticks, sweep, oracleCount>>

\* step 2: the pending messages, and the time since the latest of them
processMessagesForChat_pendingMessages(w) ==
    /\ hook[w].pc = "pm_find"
    /\ LET pending == WithStatus(hook[w].chat, "pending")
           latest == Max({conversationsCollection[d].timestamp : d \in pending})
       IN hook' = [hook EXCEPT ![w] =
                     IF pending = {} THEN HookDone
                     ELSE IF now - latest < FORCED_DELAY_MS /\ ~hook[w].force
                          THEN [hook[w] EXCEPT !.pc = "pm_defer", !.t = latest]
                          ELSE [hook[w] EXCEPT !.pc = "pm_claim", !.mid = 0,
                                               !.claimed = pending]]
    /\ UNCHANGED <<whatsapp, debounce, chats, stalled, conversationsCollection, now, ticks, sweep, oracleCount>>

\* updateMany({chatId, status: "pending"}, {waitUntil: latest + delay, waitingForDelay: true})
processMessagesForChat_defer(w) ==
    /\ hook[w].pc = "pm_defer"
    /\ conversationsCollection' = [d \in DocIds |->
                  IF d \in WithStatus(hook[w].chat, "pending")
                  THEN [conversationsCollection[d] EXCEPT !.waitUntil = hook[w].t + FORCED_DELAY_MS,
                                       !.waitingForDelay = TRUE]
                  ELSE conversationsCollection[d]]
    /\ hook' = [hook EXCEPT ![w] = HookDone]
    /\ UNCHANGED <<whatsapp, debounce, chats, stalled, now, ticks, sweep, oracleCount>>

\* step 3: updateMany({_id: {$in: messageIds}}, {status: "processing", ...})
processMessagesForChat_claim(w) ==
    /\ hook[w].pc = "pm_claim"
    /\ conversationsCollection' = ClaimDocs(hook[w].claimed)
    /\ hook' = [hook EXCEPT ![w].pc = "pc_find", ![w].force = FALSE]
    /\ UNCHANGED <<whatsapp, debounce, chats, stalled, now, ticks, sweep, oracleCount>>

\* processConversation: the messages in "processing" of the chat
processConversation_messagesToProcess(w) ==
    /\ hook[w].pc = "pc_find"
    /\ LET batch == WithStatus(hook[w].chat, "processing")
       IN hook' = [hook EXCEPT ![w] =
                     IF batch = {} THEN HookDone
                     ELSE [hook[w] EXCEPT !.pc = "pc_build", !.batch = batch]]
    /\ UNCHANGED <<whatsapp, debounce, chats, stalled, conversationsCollection, now, ticks, sweep, oracleCount>>

\* history and content; each voice or photo message is fetched inside its own
\* try/catch and may fail; an exception outside those lands in the outer catch
processConversation_content(w) ==
    /\ hook[w].pc = "pc_build"
    /\ \/ LET all == processConversation_allMessages(hook[w].chat, now, hook[w].batch)
          IN \E failed \in SUBSET Media(all) :
                hook' = [hook EXCEPT ![w] =
                           IF contentParts(all, failed) # <<>>
                           THEN [hook[w] EXCEPT
                                   !.pc = "pc_oracle",
                                   !.all = all,
                                   !.failed = failed,
                                   !.content = contentParts(all, failed)]
                           ELSE [hook[w] EXCEPT !.pc = "pc_empty"]]
       \/ hook' = [hook EXCEPT ![w].pc = "pc_fatal"]
    /\ UNCHANGED <<whatsapp, debounce, chats, stalled, conversationsCollection, now, ticks, sweep, oracleCount>>

\* no content: the claimed messages become processed, no oracle call
processConversation_noContent(w) ==
    /\ hook[w].pc = "pc_empty"
    /\ conversationsCollection' = SetStatus(hook[w].batch, "processed")
    /\ hook' = [hook EXCEPT ![w].pc = "pc_return", ![w].outcome = "empty",
                            ![w].wrote = "processed"]
    /\ UNCHANGED <<whatsapp, debounce, chats, stalled, now, ticks, sweep, oracleCount>>

\* openai.chat.completions.create: succeeds or throws
processConversation_completion(w) ==
    /\ hook[w].pc = "pc_oracle"
    /\ CountOracle(hook[w].batch, "hook")
    /\ \E ok \in BOOLEAN :
          hook' = [hook EXCEPT ![w].pc = IF ok THEN "pc_send" ELSE "pc_apology",
                              ![w].all = <<>>,
                              ![w].failed = {},
                              ![w].content = <<>>,
                              ![w].calls = More(@)]
    /\ UNCHANGED <<whatsapp, debounce, chats, stalled, conversationsCollection, now, ticks, sweep>>

\* bot.sendMessage(chatId, reply): succeeds or throws
processConversation_sendMessage(w) ==
    /\ hook[w].pc = "pc_send"
    /\ \E ok \in BOOLEAN :
          hook' = [hook EXCEPT ![w].pc = IF ok THEN "pc_mark" ELSE "pc_fallback",
                              ![w].outcome = IF ok THEN "sent" ELSE "unsent",
                              ![w].sends = More(@)]
    /\ UNCHANGED <<whatsapp, debounce, chats, stalled, conversationsCollection, now, ticks, sweep, oracleCount>>

\* the send failed: one more sendMessage with a fixed notice, its failure is
\* only logged
processConversation_fallback(w) ==
    /\ hook[w].pc = "pc_fallback"
    /\ hook' = [hook EXCEPT ![w].pc = "pc_mark", ![w].sends = More(@)]
    /\ UNCHANGED <<whatsapp, debounce, chats, stalled, conversationsCollection, now, ticks, sweep, oracleCount>>

\* the batch is marked processed, whether or not the reply was delivered
processConversation_processed(w) ==
    /\ hook[w].pc = "pc_mark"
    /\ conversationsCollection' = SetStatus(hook[w].batch, "processed")
    /\ hook' = [hook EXCEPT ![w].pc = "pc_return", ![w].wrote = "processed"]
    /\ UNCHANGED <<whatsapp, debounce, chats, stalled, now, ticks, sweep, oracleCount>>

\* a variant of the oracle catch that calls the oracle again instead of giving up
processConversation_apology_retry(w) ==
    /\ hook[w].pc = "pc_apology"
    /\ hook' = [hook EXCEPT ![w].pc = "pc_oracle"]
    /\ UNCHANGED <<whatsapp, debounce, chats, stalled, conversationsCollection, now, ticks, sweep, oracleCount>>

\* oracle failure: the apology is sent (a failing send is only logged)
processConversation_apology(w) ==
    /\ hook[w].pc = "pc_apology"
    /\ hook' = [hook EXCEPT ![w].pc = "pc_error", ![w].outcome = "oracle_failed",
                            ![w].sends = More(@)]
    /\ UNCHANGED <<whatsapp, debounce, chats, stalled, conversationsCollection, now, ticks, sweep, oracleCount>>

\* ... then the batch is marked error
processConversation_error(w) ==
    /\ hook[w].pc = "pc_error"
    /\ conversationsCollection' = SetStatus(hook[w].batch, "error")
    /\ hook' = [hook EXCEPT ![w].pc = "pc_return", ![w].wrote = "error"]
    /\ UNCHANGED <<whatsapp, debounce, chats, stalled, now, ticks, sweep, oracleCount>>

\* outer catch: a fixed notice is sent, no status is written
processConversation_catch(w) ==
    /\ hook[w].pc = "pc_fatal"
    /\ hook' = [hook EXCEPT ![w].pc = "pc_return", ![w].outcome = "failed",
                            ![w].sends = More(@)]
    /\ UNCHANGED <<whatsapp, debounce, chats, stalled, conversationsCollection, now, ticks, sweep, oracleCount>>

\* processConversation has returned; the handler answers the webhook
handler_response(w) ==
    /\ hook[w].pc = "pc_return"
    /\ hook' = [hook EXCEPT ![w] = HookDone]
    /\ UNCHANGED <<whatsapp, debounce, chats, stalled, conversationsCollection, now, ticks, sweep, oracleCount>>

(* ---- sweeps: cron.ts, process-pending.ts, telegram/process.ts ---------- *)
\* end of one chat's iteration of the sweep loop
Continue(r) ==
    IF r.todo \ {r.chat} = {}
    THEN SweepIdle
    ELSE [r EXCEPT !.pc = "s_claim", !.todo = @ \ {r.chat}, !.chat = 0,
                   !.claimed = {}, !.batch = {}, !.calls = 0, !.sends = 0,
                   !.outcome = "none", !.wrote = "none"]

\* cron.ts: the waiting messages whose time has passed, grouped by chat
cron_readyMessages(s) ==
    /\ sweep[s].pc = "idle"
    /\ readyMessages(now) # {}
    /\ sweep' = [sweep EXCEPT ![s] =
                   [SweepIdle EXCEPT
                       !.pc = "s_claim", !.kind = "cron", !.now = now,
                       !.ready = readyMessages(now),
                       !.todo = {conversationsCollection[d].chatId : d \in readyMessages(now)}]]
    /\ UNCHANGED <<whatsapp, debounce, chats, stalled, conversationsCollection, now, ticks, hook, oracleCount>>

\* process-pending.ts: the same query, the ids found are kept per chat
manual_pendingMessages(s) ==
    /\ sweep[s].pc = "idle"
    /\ readyMessages(now) # {}
    /\ sweep' = [sweep EXCEPT ![s] =
                   [SweepIdle EXCEPT
                       !.pc = "s_claim", !.kind = "manual",
                       !.ready = readyMessages(now),
                       !.todo = {conversationsCollection[d].chatId : d \in readyMessages(now)}]]
    /\ UNCHANGED <<whatsapp, debounce, chats, stalled, conversationsCollection, now, ticks, hook, oracleCount>>

\* a variant of the sweep's claim that takes only the newest of the messages
\* it selects
sweep_claim_newest(s) ==
    /\ sweep[s].pc = "s_claim"
    /\ LET r == [sweep[s] EXCEPT !.chat = Min(sweep[s].todo)]
           R == IF r.kind = "cron"
                THEN waitingMessagesReady(r.chat, r.now)
                ELSE {d \in r.ready : conversationsCollection[d].chatId = r.chat}
           S == {d \in R : \A e \in R :
                    conversationsCollection[e].timestamp <= conversationsCollection[d].timestamp}
       IN /\ conversationsCollection' = ClaimDocs(S)
          /\ sweep' = [sweep EXCEPT ![s] =
                         IF r.kind = "cron" /\ S = {}
                         THEN Continue(r)
                         ELSE [r EXCEPT !.pc = "s_find", !.claimed = S]]
    /\ UNCHANGED <<whatsapp, debounce, chats, stalled, now, ticks, hook, oracleCount>>

\* a variant of the sweep's claim that goes on to the chat's messages whatever
\* the number of messages its update modified
sweep_claim_noskip(s) ==
    /\ sweep[s].pc = "s_claim"
    /\ LET r == [sweep[s] EXCEPT !.chat = Min(sweep[s].todo)]
           S == IF r.kind = "cron"
                THEN waitingMessagesReady(r.chat, r.now)
                ELSE {d \in r.ready : conversationsCollection[d].chatId = r.chat}
       IN /\ conversationsCollection' = ClaimDocs(S)
          /\ sweep' = [sweep EXCEPT ![s] = [r EXCEPT !.pc = "s_find", !.claimed = S]]
    /\ UNCHANGED <<whatsapp, debounce, chats, stalled, now, ticks, hook, oracleCount>>

\* cron: updateMany({chatId, waitingForDelay: true, waitUntil: {$lte: now}}, ...),
\*       a modifiedCount of 0 skips the chat
\* manual: updateMany({_id: {$in: messageIds}}, ...) with the ids found at the start
sweep_claim(s) ==
    /\ sweep[s].pc = "s_claim"
    /\ LET r == [sweep[s] EXCEPT !.chat = Min(sweep[s].todo)]
           S == IF r.kind = "cron"
                THEN waitingMessagesReady(r.chat, r.now)
                ELSE {d \in r.ready : conversationsCollection[d].chatId = r.chat}
       IN /\ conversationsCollection' = ClaimDocs(S)
          /\ sweep' = [sweep EXCEPT ![s] =
                         IF r.kind = "cron" /\ S = {}
                         THEN Continue(r)
                         ELSE [r EXCEPT !.pc = "s_find", !.claimed = S]]
    /\ UNCHANGED <<whatsapp, debounce, chats, stalled, now, ticks, hook, oracleCount>>

\* find({chatId, status: "processing"}); the cron sweep skips an empty result
sweep_messagesToProcess(s) ==
    /\ sweep[s].pc = "s_find"
    /\ LET batch == WithStatus(sweep[s].chat, "processing")
       IN sweep' = [sweep EXCEPT ![s] =
                      IF sweep[s].kind = "cron" /\ batch = {}
                      THEN Continue(sweep[s])
                      ELSE [sweep[s] EXCEPT !.pc = "s_build", !.batch = batch]]
    /\ UNCHANGED <<whatsapp, debounce, chats, stalled, conversationsCollection, now, ticks, hook, oracleCount>>

\* telegram/process.ts: the chat's messages in "processing", claimed by whoever
process_messagesToProcess(s) ==
    /\ sweep[s].pc = "idle"
    /\ \E c \in chats :
          /\ WithStatus(c, "processing") # {}
          /\ sweep' = [sweep EXCEPT ![s] =
                         [SweepIdle EXCEPT !.pc = "s_build", !.kind = "process",
                                           !.chat = c, !.todo = {c},
                                           !.batch = WithStatus(c, "processing")]]
    /\ UNCHANGED <<whatsapp, debounce, chats, stalled, conversationsCollection, now, ticks, hook, oracleCount>>

\* history, then processConversationFromCron up to the oracle call: no content
\* returns false and leaves the statuses alone, and so does an exception
processConversationFromCron_content(s) ==
    /\ sweep[s].pc = "s_build"
    /\ LET at == IF sweep[s].kind = "cron" THEN sweep[s].now ELSE now
           all == processConversationFromCron_allMessages(sweep[s].chat, at, sweep[s].batch)
       IN \/ \E failed \in SUBSET Media(all) :
                sweep' = [sweep EXCEPT ![s] =
                            IF contentParts(all, failed) # <<>>
                            THEN [sweep[s] EXCEPT
                                    !.pc = "s_oracle",
                                    !.all = all,
                                    !.failed = failed,
                                    !.content = contentParts(all, failed)]
                            ELSE [sweep[s] EXCEPT !.pc = "s_return", !.outcome = "empty"]]
          \/ sweep' = [sweep EXCEPT ![s].pc = "s_return", ![s].outcome = "failed"]
    /\ UNCHANGED <<whatsapp, debounce, chats, stalled, conversationsCollection, now, ticks, hook, oracleCount>>

\* the oracle call: a failure returns false, the statuses stay as they are
processConversationFromCron_completion(s) ==
    /\ sweep[s].pc = "s_oracle"
    /\ CountOracle(sweep[s].batch, IF sweep[s].kind = "process" THEN "process" ELSE "sweep")
    /\ \E ok \in BOOLEAN :
          sweep' = [sweep EXCEPT ![s] =
                      IF ok THEN [sweep[s] EXCEPT !.pc = "s_send", !.all = <<>>,
                                                  !.failed = {}, !.content = <<>>,
                                                  !.calls = More(@)]
                      ELSE [sweep[s] EXCEPT !.pc = "s_return", !.all = <<>>,
                                            !.failed = {}, !.content = <<>>,
                                            !.calls = More(@),
                                            !.outcome = "oracle_failed"]]
    /\ UNCHANGED <<whatsapp, debounce, chats, stalled, conversationsCollection, now, ticks, hook>>

\* bot.sendMessage(reply): a failure returns false, the statuses stay as they are
processConversationFromCron_sendMessage(s) ==
    /\ sweep[s].pc = "s_send"
    /\ \E ok \in BOOLEAN :
          sweep' = [sweep EXCEPT ![s] =
                      IF ok THEN [sweep[s] EXCEPT !.pc = "s_mark", !.sends = More(@),
                                                  !.outcome = "sent"]
                      ELSE [sweep[s] EXCEPT !.pc = "s_return", !.sends = More(@),
                                            !.outcome = "unsent"]]
    /\ UNCHANGED <<whatsapp, debounce, chats, stalled, conversationsCollection, now, ticks, hook, oracleCount>>

\* updateMany({_id: {$in: ...}}, {status: "processed"})
processConversationFromCron_processed(s) ==
    /\ sweep[s].pc = "s_mark"
    /\ conversationsCollection' = SetStatus(sweep[s].batch, "processed")
    /\ sweep' = [sweep EXCEPT ![s].pc = "s_return", ![s].wrote = "processed"]
    /\ UNCHANGED <<whatsapp, debounce, chats, stalled, now, ticks, hook, oracleCount>>

\* a variant of the end of a chat's iteration that gives up the whole run
\* after a failed oracle call
sweep_result_abort(s) ==
    /\ sweep[s].pc = "s_return"
    /\ sweep' = [sweep EXCEPT ![s] =
                   IF sweep[s].outcome = "oracle_failed" THEN SweepIdle
                   ELSE Continue(sweep[s])]
    /\ UNCHANGED <<whatsapp, debounce, chats, stalled, conversationsCollection, now, ticks, hook, oracleCount>>

\* processConversationFromCron has returned: the caller counts the result and
\* goes on with the next chat
sweep_result(s) ==
    /\ sweep[s].pc = "s_return"
    /\ sweep' = [sweep EXCEPT ![s] = Continue(sweep[s])]
    /\ UNCHANGED <<whatsapp, debounce, chats, stalled, conversationsCollection, now, ticks, hook, oracleCount>>

Next ==
    \/ Tick
    \/ \E w \in Webhooks : handler_start(w)
    \/ \E w \in Webhooks : handler_waitingMessagesReady(w)
    \/ \E w \in Webhooks : handler_insertOne(w)
    \/ \E w \in Webhooks : processMessagesForChat_recentCount(w)
    \/ \E w \in Webhooks : processMessagesForChat_pendingMessages(w)
    \/ \E w \in Webhooks : processMessagesForChat_defer(w)
    \/ \E w \in Webhooks : processMessagesForChat_claim(w)
    \/ \E w \in Webhooks : processConversation_messagesToProcess(w)
    \/ \E w \in Webhooks : processConversation_content(w)
    \/ \E w \in Webhooks : processConversation_noContent(w)
    \/ \E w \in Webhooks : processConversation_completion(w)
    \/ \E w \in Webhooks : processConversation_sendMessage(w)
    \/ \E w \in Webhooks : processConversation_fallback(w)
    \/ \E w \in Webhooks : processConversation_processed(w)
    \/ \E w \in Webhooks : processConversation_apology(w)
    \/ \E w \in Webhooks : processConversation_error(w)
    \/ \E w \in Webhooks : processConversation_catch(w)
    \/ \E w \in Webhooks : handler_response(w)
    \/ \E s \in Sweepers : cron_readyMessages(s)
    \/ \E s \in Sweepers : manual_pendingMessages(s)
    \/ \E s \in Sweepers : sweep_claim(s)
    \/ \E s \in Sweepers : sweep_messagesToProcess(s)
    \/ \E s \in Sweepers : process_messagesToProcess(s)
    \/ \E s \in Sweepers : processConversationFromCron_content(s)
    \/ \E s \in Sweepers : processConversationFromCron_completion(s)
    \/ \E s \in Sweepers : processConversationFromCron_sendMessage(s)
    \/ \E s \in Sweepers : processConversationFromCron_processed(s)
    \/ \E s \in Sweepers : sweep_result(s)

Spec == Init /\ [][Next]_vars

(* ---- scheduling -------------------------------------------------------- *)
\* every started handler runs on, the clock advances, and the platform's
\* scheduler starts the cron sweep again and again (cron.ts:52, every minute)
HookStep(w) ==
    \/ handler_insertOne(w)
    \/ processMessagesForChat_recentCount(w)
    \/ processMessagesForChat_pendingMessages(w)
    \/ processMessagesForChat_defer(w)
    \/ processMessagesForChat_claim(w)
    \/ processConversation_messagesToProcess(w)
    \/ processConversation_content(w)
    \/ processConversation_noContent(w)
    \/ processConversation_completion(w)
    \/ processConversation_sendMessage(w)
    \/ processConversation_processed(w)
    \/ processConversation_apology(w)
    \/ processConversation_error(w)
    \/ processConversation_fallback(w)
    \/ processConversation_catch(w)
    \/ handler_response(w)

SweepStep(s) ==
    \/ sweep_claim(s)
    \/ sweep_messagesToProcess(s)
    \/ processConversationFromCron_content(s)
    \/ processConversationFromCron_completion(s)
    \/ processConversationFromCron_sendMessage(s)
    \/ processConversationFromCron_processed(s)
    \/ sweep_result(s)

FairSpec ==
    /\ Spec
    /\ WF_vars(Tick)
    /\ WF_vars(\E w \in Webhooks : HookStep(w))
    /\ WF_vars(\E s \in Sweepers : SweepStep(s))
    /\ SF_vars(\E s \in Sweepers : cron_readyMessages(s))

(* ---- two conversations -------------------------------------------------- *)
\* the same program serving two chats; the clock has already advanced by one
\* step inside the batch window before the first event arrives
TwoChatsInit ==
    /\ chats = {1, 2}
    /\ conversationsCollection = <<>>
    /\ now = BATCH_TIME_WINDOW_MS \div 2
    /\ ticks = MaxTicks - 1
    /\ hook = [w \in Webhooks |-> HookIdle]
    /\ sweep = [s \in Sweepers |-> SweepIdle]
    /\ oracleCount = <<>>
    /\ stalled = FALSE
    /\ WhatsAppIdle
    /\ DebounceIdle

TwoChatsSpec == TwoChatsInit /\ [][Next]_vars

(* ---- retention: the TTL index on timestamp ------------------------------ *)
\* createIndex({timestamp: 1}, {expireAfterSeconds}): the documents the store's
\* TTL monitor removes at time at
Expired(at) ==
    {d \in DocIds : conversationsCollection[d].timestamp + expireAfterSeconds * 1000 <= at}

\* the entries of q at the positions in S, in order
RECURSIVE Kept(_, _)
Kept(q, S) ==
    IF q = <<>> THEN <<>>
    ELSE LET front == Kept(SubSeq(q, 1, Len(q) - 1), S)
         IN IF Len(q) \in S THEN Append(front, q[Len(q)]) ELSE front

\* the retention horizon passes
LongTick ==
    /\ ticks < MaxTicks
    /\ now' = now + expireAfterSeconds * 1000
    /\ stalled' = (stalled \/ InFlight)
    /\ ticks' = ticks + 1
    /\ UNCHANGED <<whatsapp, debounce, chats, conversationsCollection, hook, sweep, oracleCount>>

\* the TTL monitor deletes the expired documents, whatever their status; it is
\* taken to run while no invocation holds _ids in its locals
ttl_expire ==
    /\ ~InFlight
    /\ Expired(now) # {}
    /\ conversationsCollection' = Kept(conversationsCollection, DocIds \ Expired(now))
    /\ oracleCount' = Kept(oracleCount, DocIds \ Expired(now))
    /\ UNCHANGED <<whatsapp, debounce, chats, now, ticks, hook, sweep, stalled>>

\* the invocations' steps
Program ==
    \/ \E w \in Webhooks : handler_start(w)
    \/ \E w \in Webhooks : handler_waitingMessagesReady(w)
    \/ \E w \in Webhooks : HookStep(w)
    \/ \E s \in Sweepers : cron_readyMessages(s)
    \/ \E s \in Sweepers : manual_pendingMessages(s)
    \/ \E s \in Sweepers : process_messagesToProcess(s)
    \/ \E s \in Sweepers : SweepStep(s)

RetentionNext == Program \/ LongTick \/ ttl_expire

RetentionSpec == Init /\ [][RetentionNext]_vars

(* ---- content assembly with media ---------------------------------------- *)
MediaPayloads == {"text", "voice", "photo", "video"}

\* stores of one chat right after a webhook invocation claimed its pending
\* messages: up to MaxEvents documents, each claimed ("processing") or answered
\* earlier ("processed"), at least one of them claimed
ClaimedStores ==
    {q \in UNION {[1..n -> [chatId : {1}, message_id : 1..MaxEvents,
                            payload : MediaPayloads,
                            timestamp : {0, BATCH_TIME_WINDOW_MS \div 2},
                            status : {"processing", "processed"},
                            waitingForDelay : {FALSE}, waitUntil : {NoTime}]]
                   : n \in 1..MaxEvents} :
        /\ \A i \in DOMAIN q : q[i].message_id = i
        /\ \A i, j \in DOMAIN q : i <= j => q[i].timestamp <= q[j].timestamp
        /\ \E i \in DOMAIN q : q[i].status = "processing"}

MediaInit ==
    /\ chats = {1}
    /\ conversationsCollection \in ClaimedStores
    /\ now = FORCED_DELAY_MS + BATCH_TIME_WINDOW_MS \div 2
    /\ ticks = 0
    /\ hook = [w \in Webhooks |->
                 IF w = 1
                 THEN [HookIdle EXCEPT
                         !.pc = "pc_find", !.chat = 1,
                         !.claimed = {d \in DOMAIN conversationsCollection :
                                         conversationsCollection[d].status = "processing"}]
                 ELSE HookDone]
    /\ sweep = [s \in Sweepers |-> SweepIdle]
    /\ oracleCount = [d \in DOMAIN conversationsCollection |->
                        [hook |-> 0, sweep |-> 0, process |-> 0]]
    /\ stalled = FALSE
    /\ WhatsAppIdle
    /\ DebounceIdle

\* processConversation from its first query to the handler's response
Dispatch(w) ==
    \/ processConversation_messagesToProcess(w)
    \/ processConversation_content(w)
    \/ processConversation_noContent(w)
    \/ processConversation_completion(w)
    \/ processConversation_sendMessage(w)
    \/ processConversation_fallback(w)
    \/ processConversation_processed(w)
    \/ processConversation_apology(w)
    \/ processConversation_error(w)
    \/ processConversation_catch(w)
    \/ handler_response(w)

\* telegram/process.ts and processConversationFromCron
SweepDispatch(s) ==
    \/ process_messagesToProcess(s)
    \/ processConversationFromCron_content(s)
    \/ processConversationFromCron_completion(s)
    \/ processConversationFromCron_sendMessage(s)
    \/ processConversationFromCron_processed(s)
    \/ sweep_result(s)

MediaNext ==
    \/ \E w \in Webhooks : Dispatch(w)
    \/ \E s \in Sweepers : SweepDispatch(s)

MediaSpec == MediaInit /\ [][MediaNext]_vars

(* ---- dispatch with a long history --------------------------------------- *)
Minute == 60 * 1000

\* a store with n answered messages of payload k, received gap apart, and one
\* newer claimed message; message x, if any, is of another chat or ended in
\* "error"
LongStore(n, gap, x, how, k) ==
    [i \in 1..(n + 1) |->
        [chatId |-> IF i = x /\ how = "chat" THEN 2 ELSE 1,
         message_id |-> i,
         payload |-> k,
         timestamp |-> (i - 1) * gap,
         status |-> IF i = n + 1 THEN "processing"
                    ELSE IF i = x /\ how = "error" THEN "error"
                    ELSE "processed",
         waitingForDelay |-> FALSE,
         waitUntil |-> NoTime]]

HistoryInit ==
    /\ chats = {1, 2}
    /\ \E n \in (MaxHistory - 3)..MaxHistory, gap \in {Minute, 2 * Minute, 3 * Minute} :
          /\ \E x \in {0, 1, n}, how \in {"chat", "error"}, k \in {"text", "video"} :
                conversationsCollection = LongStore(n, gap, x, how, k)
          /\ now = n * gap + FORCED_DELAY_MS
    /\ ticks = 0
    /\ hook = [w \in Webhooks |->
                 IF w = 1
                 THEN [HookIdle EXCEPT
                         !.pc = "pc_find", !.chat = 1,
                         !.claimed = {Len(conversationsCollection)}]
                 ELSE HookDone]
    /\ sweep = [s \in Sweepers |-> SweepIdle]
    /\ oracleCount = [d \in DOMAIN conversationsCollection |->
                        [hook |-> 0, sweep |-> 0, process |-> 0]]
    /\ stalled = FALSE
    /\ WhatsAppIdle
    /\ DebounceIdle

HistorySpec == HistoryInit /\ [][MediaNext]_vars

(* ---- store failures in processMessagesForChat --------------------------- *)
\* a store operation of processMessagesForChat throws and the catch around the
\* function body logs and returns.  A failed query changes nothing; a failed
\* updateMany may have been applied to none, some or all of its documents
\* before the error reached the caller
processMessagesForChat_catch(w) ==
    /\ hook[w].pc \in {"pm_count", "pm_find", "pm_defer", "pm_claim"}
    /\ \/ /\ hook[w].pc \in {"pm_count", "pm_find"}
          /\ UNCHANGED conversationsCollection
       \/ /\ hook[w].pc = "pm_defer"
          /\ \E S \in SUBSET WithStatus(hook[w].chat, "pending") :
                conversationsCollection' = [d \in DocIds |->
                    IF d \in S
                    THEN [conversationsCollection[d] EXCEPT
                            !.waitUntil = hook[w].t + FORCED_DELAY_MS,
                            !.waitingForDelay = TRUE]
                    ELSE conversationsCollection[d]]
       \/ /\ hook[w].pc = "pm_claim"
          /\ \E S \in SUBSET hook[w].claimed :
                conversationsCollection' = ClaimDocs(S)
    /\ hook' = [hook EXCEPT ![w] = HookDone]
    /\ UNCHANGED <<whatsapp, debounce, chats, stalled, now, ticks, sweep, oracleCount>>

StoreErrorNext == Next \/ \E w \in Webhooks : processMessagesForChat_catch(w)

StoreErrorSpec == TwoChatsInit /\ [][StoreErrorNext]_vars

(* ---- requests the webhook turns away ------------------------------------ *)
Methods == {"POST", "GET", "PUT"}

\* the update in the request body: a message with a chat id, or a body that
\* lacks the message, the chat or the chat id, or no body at all
Bodies == {"message", "no_message", "no_chat", "no_chat_id", "empty"}

\* a variant of the checks that looks at the body before the method
handler_status_body_first(method, body) ==
    IF body # "message" THEN 400
    ELSE IF method # "POST" THEN 405
    ELSE 200

\* the handler's checks in their order: the method, then
\* update && update.message && update.message.chat && update.message.chat.id
handler_status(method, body) ==
    IF method # "POST" THEN 405
    ELSE IF body # "message" THEN 400
    ELSE 200

\* a request that fails a check is answered with its status and the handler
\* returns; nothing was awaited before
handler_reject(w) ==
    /\ hook[w].pc = "idle"
    /\ InOrder(w)
    /\ \E method \in Methods, body \in Bodies :
          /\ handler_status(method, body) # 200
          /\ hook' = [hook EXCEPT ![w] =
                        [HookDone EXCEPT !.method = method, !.body = body,
                                         !.response = handler_status(method, body)]]
    /\ UNCHANGED <<whatsapp, debounce, chats, stalled, conversationsCollection, now, ticks, sweep, oracleCount>>

TransportNext ==
    \/ Tick
    \/ \E w \in Webhooks : handler_reject(w)
    \/ \E w \in Webhooks : handler_start(w)
    \/ \E w \in Webhooks : handler_waitingMessagesReady(w)
    \/ \E w \in Webhooks : HookStep(w)

TransportSpec == Init /\ [][TransportNext]_vars

(* ---- two cron runs at once ---------------------------------------------- *)
\* the scheduler starts a run every minute whether or not the previous one has
\* ended, and the endpoint can be called by hand as well
RaceSweepers == 1..(MaxSweepers + 1)

\* stores in which every message is pending and waits for its conversation's
\* forced delay, as the deferral leaves them: one waitUntil per conversation
WaitingStores ==
    {q \in UNION {[1..n -> [chatId : {1, 2}, message_id : (MaxEvents + 1)..(MaxEvents + 2),
                            payload : {"text", "video"},
                            timestamp : {0, BATCH_TIME_WINDOW_MS \div 2},
                            status : {"pending"},
                            waitingForDelay : {TRUE},
                            waitUntil : {FORCED_DELAY_MS,
                                         FORCED_DELAY_MS + BATCH_TIME_WINDOW_MS \div 2}]]
                   : n \in 1..2} :
        /\ \A i \in DOMAIN q : q[i].message_id = MaxEvents + i
        /\ \A i, j \in DOMAIN q : i <= j => q[i].timestamp <= q[j].timestamp
        /\ \A i \in DOMAIN q :
              q[i].waitUntil =
                  FORCED_DELAY_MS
                    + Max({q[j].timestamp : j \in {k \in DOMAIN q : q[k].chatId = q[i].chatId}})}

\* either two conversations wait and no further message arrives, or one
\* conversation waits and one further message can arrive during the runs
RaceInit ==
    /\ chats \in {{1}, {1, 2}}
    /\ conversationsCollection \in WaitingStores
    /\ \A i \in DOMAIN conversationsCollection : conversationsCollection[i].chatId \in chats
    /\ now = FORCED_DELAY_MS
    /\ ticks = MaxTicks - 1
    /\ hook = [w \in Webhooks |-> IF w = 1 /\ chats = {1} THEN HookIdle ELSE HookDone]
    /\ sweep = [s \in RaceSweepers |-> SweepIdle]
    /\ oracleCount = [d \in DOMAIN conversationsCollection |->
                         [hook |-> 0, sweep |-> 0, process |-> 0]]
    /\ stalled = FALSE
    /\ WhatsAppIdle
    /\ DebounceIdle

\* the clock, with both runs counted as invocations in flight
RaceTick ==
    /\ ticks < MaxTicks
    /\ \E delta \in TickDeltas :
          /\ now' = now + delta
          /\ stalled' = (stalled \/ (delta >= BATCH_TIME_WINDOW_MS
                                       /\ (InFlight \/ \E s \in RaceSweepers : sweep[s].pc # "idle")))
    /\ ticks' = ticks + 1
    /\ UNCHANGED <<whatsapp, debounce, chats, conversationsCollection, hook, sweep, oracleCount>>

RaceNext ==
    \/ RaceTick
    \/ \E w \in Webhooks : handler_start(w)
    \/ \E w \in Webhooks : handler_waitingMessagesReady(w)
    \/ \E w \in Webhooks : HookStep(w)
    \/ \E s \in RaceSweepers : cron_readyMessages(s)
    \/ \E s \in RaceSweepers : SweepStep(s)

RaceSpec == RaceInit /\ [][RaceNext]_vars

(* ---- requests to the cron endpoint ---------------------------------------- *)
\* a request is issued by the platform's scheduler or by anyone else; the
\* scheduler's carry its user agent, every other header is the sender's choice
CronRequests ==
    {r \in [issuer : {"scheduler", "manual"},
            userAgent : {"VercelCron", "other"},
            authorization : {"secret", "wrong", "none"}] :
        r.issuer = "scheduler" => r.userAgent = "VercelCron"}

\* userAgent.includes('VercelCron'), else authorization === `Bearer ${CRON_SECRET}`
cron_authorized(r) ==
    \/ r.userAgent = "VercelCron"
    \/ r.authorization = "secret"

\* cron.ts handler from the request to the grouping of the ready messages:
\* 401 for a request that is not authorized, 200 when nothing is ready
cron_handler(s) ==
    /\ sweep[s].pc = "idle"
    /\ \E r \in CronRequests :
          sweep' = [sweep EXCEPT ![s] =
                      IF ~cron_authorized(r)
                      THEN [SweepIdle EXCEPT !.request = r, !.response = 401]
                      ELSE IF readyMessages(now) = {}
                      THEN [SweepIdle EXCEPT !.request = r, !.response = 200]
                      ELSE [SweepIdle EXCEPT
                              !.request = r,
                              !.pc = "s_claim", !.kind = "cron", !.now = now,
                              !.ready = readyMessages(now),
                              !.todo = {conversationsCollection[d].chatId :
                                           d \in readyMessages(now)}]]
    /\ UNCHANGED <<whatsapp, debounce, chats, stalled, conversationsCollection, now, ticks, hook, oracleCount>>

\* waiting conversations, no further inbound message
AuthInit ==
    /\ chats = {1, 2}
    /\ conversationsCollection \in WaitingStores
    /\ now = FORCED_DELAY_MS
    /\ ticks = MaxTicks - 1
    /\ hook = [w \in Webhooks |-> HookDone]
    /\ sweep = [s \in Sweepers |-> SweepIdle]
    /\ oracleCount = [d \in DOMAIN conversationsCollection |->
                         [hook |-> 0, sweep |-> 0, process |-> 0]]
    /\ stalled = FALSE
    /\ WhatsAppIdle
    /\ DebounceIdle

AuthNext ==
    \/ Tick
    \/ \E s \in Sweepers : cron_handler(s)
    \/ \E s \in Sweepers : SweepStep(s)

AuthSpec == AuthInit /\ [][AuthNext]_vars

(* ---- the WhatsApp bot: src/app.js, src/utils/conversations.js ------------- *)
\* the state of the relay, which this program does not share
relay == <<chats, conversationsCollection, hook, sweep, oracleCount, stalled>>

CONVERSATION_EXPIRY == 30 * 60 * 1000

\* the interval of setInterval(cleanupExpiredConversations, ...)
CLEANUP_INTERVAL == 15 * 60 * 1000

\* the keys of SYSTEM_MESSAGES; a system entry's content is its key
SYSTEM_MESSAGES == {"default", "customer_service", "educator", "technical"}

SystemMessage(mode) == [role |-> "system", content |-> mode, n |-> 0]

\* the n-th message added, from the user or the assistant
Message(role, n) == [role |-> role, content |-> "body", n |-> n]

\* a variant of the cut that keeps the first ten messages after the system entry
slice_oldest(q) ==
    IF Len(q) > 11 THEN <<q[1]>> \o SubSeq(q, 2, 11) ELSE q

\* if (messages.length > 11) messages = [messages[0], ...messages.slice(-10)]
slice(q) ==
    IF Len(q) > 11 THEN <<q[1]>> \o SubSeq(q, Len(q) - 9, Len(q)) ELSE q

\* addMessage(userId, message): a missing conversation is created with the
\* default system entry; the message is pushed, lastUpdated set, the history cut
addMessage(u, role) ==
    /\ received < MaxInbound
    /\ LET conversation ==
               IF conversations[u] = NoConversation
               THEN [messages |-> <<SystemMessage("default")>>, lastUpdated |-> now]
               ELSE conversations[u]
           pushed == Append(conversation.messages, Message(role, received + 1))
       IN conversations' = [conversations EXCEPT ![u] =
                               [messages |-> slice(pushed), lastUpdated |-> now]]
    /\ received' = received + 1
    /\ UNCHANGED <<relay, debounce, now, ticks>>

\* the conversation of u has not been updated for longer than the expiry
Lapsed(u, at) ==
    /\ conversations[u] # NoConversation
    /\ at - conversations[u].lastUpdated > CONVERSATION_EXPIRY

\* getConversation(userId) on an expired conversation: deleted, null returned
\* (on any other it returns the stored messages and changes nothing)
getConversation(u) ==
    /\ Lapsed(u, now)
    /\ conversations' = [conversations EXCEPT ![u] = NoConversation]
    /\ UNCHANGED <<relay, debounce, now, ticks, received>>

\* '/reiniciar': the conversation is deleted
handleRestartConversation(u) ==
    /\ conversations[u] # NoConversation
    /\ conversations' = [conversations EXCEPT ![u] = NoConversation]
    /\ UNCHANGED <<relay, debounce, now, ticks, received>>

\* '/modo <mode>' with a known mode and an existing conversation: the system
\* entry is replaced, or put in front when the first entry is not a system one
\* (an unknown mode or a missing conversation changes nothing)
handleChangeMode(u, mode) ==
    /\ conversations[u] # NoConversation
    /\ LET q == conversations[u].messages
       IN /\ (q # <<>> /\ q[1].role = "system") => q[1].content # mode
          /\ conversations' = [conversations EXCEPT ![u].messages =
                IF q # <<>> /\ q[1].role = "system"
                THEN [q EXCEPT ![1] = SystemMessage(mode)]
                ELSE <<SystemMessage(mode)>> \o q]
    /\ UNCHANGED <<relay, debounce, now, ticks, received>>

\* cleanupExpiredConversations() run at time at
cleanupExpiredConversations(at) ==
    [u \in WaUsers |-> IF Lapsed(u, at) THEN NoConversation ELSE conversations[u]]

\* the clock of the process; the cleanup timer fires at every multiple of its
\* interval since the start, and a step of the clock that passes such instants
\* runs the cleanup at the last of them (an earlier one deletes no more)
WaDeltas == {60 * 1000, CLEANUP_INTERVAL, CONVERSATION_EXPIRY}

WaTick ==
    /\ ticks < MaxTicks
    /\ \E delta \in WaDeltas :
          LET last == ((now + delta) \div CLEANUP_INTERVAL) * CLEANUP_INTERVAL
          IN /\ now' = now + delta
             /\ conversations' = IF last > now
                                 THEN cleanupExpiredConversations(last)
                                 ELSE conversations
    /\ ticks' = ticks + 1
    /\ UNCHANGED <<relay, debounce, received>>

\* a history of n entries as addMessage leaves it: the system entry, then
\* messages of user and assistant in turn, numbered up to 0
History0(n, mode) ==
    [i \in 1..n |->
        IF i = 1 THEN SystemMessage(mode)
        ELSE Message(IF i % 2 = 0 THEN "user" ELSE "assistant", i - n)]

\* the process has run for a minute; the first user has no conversation, a
\* short one or a full one, updated at the start or just now
WaInit ==
    /\ chats = {1}
    /\ conversationsCollection = <<>>
    /\ now = 60 * 1000
    /\ ticks = 0
    /\ hook = [w \in Webhooks |-> HookIdle]
    /\ sweep = [s \in Sweepers |-> SweepIdle]
    /\ oracleCount = <<>>
    /\ stalled = FALSE
    /\ DebounceIdle
    /\ received = 0
    /\ \E n \in {0, 2, 10, 11}, mode \in SYSTEM_MESSAGES, at \in {0, 60 * 1000} :
          conversations =
              [u \in WaUsers |->
                  IF u = "u1" /\ n > 0
                  THEN [messages |-> History0(n, mode), lastUpdated |-> at]
                  ELSE NoConversation]

WaNext ==
    \/ WaTick
    \/ \E u \in WaUsers, role \in {"user", "assistant"} : addMessage(u, role)
    \/ \E u \in WaUsers : getConversation(u)
    \/ \E u \in WaUsers : handleRestartConversation(u)
    \/ \E u \in WaUsers, mode \in SYSTEM_MESSAGES : handleChangeMode(u, mode)

WaSpec == WaInit /\ [][WaNext]_vars

(* ---- the in-memory debounce variant: src/unnamed/part_001 ----------------- *)
DEBOUNCE_DELAY_MS == 3000

\* the webhook handler in instance i for a message of chat c: the chat's timer
\* of this instance is cleared, the message stored, a new timer armed; the
\* platform chooses the instance that serves a request
debounce_handler(i, c) ==
    /\ Len(arrived) < MaxInbound
    /\ arrived' = Append(arrived, c)
    /\ lastMessageData' = [lastMessageData EXCEPT ![i][c] = Len(arrived) + 1]
    /\ debounceTimers' = [debounceTimers EXCEPT ![i][c] = now + DEBOUNCE_DELAY_MS]
    /\ UNCHANGED <<relay, whatsapp, now, ticks, processed>>

\* the timer's callback in instance i, at or after its time: processMessage is
\* started on the stored message, then both entries are deleted
debounce_timeout(i, c) ==
    /\ debounceTimers[i][c] # NoTimer
    /\ debounceTimers[i][c] <= now
    /\ IF lastMessageData[i][c] # NoMessage
       THEN /\ processed' = Append(processed,
                                   [chat |-> c, message |-> lastMessageData[i][c]])
            /\ lastMessageData' = [lastMessageData EXCEPT ![i][c] = NoMessage]
            /\ debounceTimers' = [debounceTimers EXCEPT ![i][c] = NoTimer]
       ELSE UNCHANGED <<debounceTimers, lastMessageData, processed>>
    /\ UNCHANGED <<relay, whatsapp, now, ticks, arrived>>

\* the clock: inside the debounce delay, or the whole delay
DebounceTick ==
    /\ ticks < MaxTicks
    /\ \E delta \in {DEBOUNCE_DELAY_MS \div 3, DEBOUNCE_DELAY_MS} : now' = now + delta
    /\ ticks' = ticks + 1
    /\ UNCHANGED <<relay, whatsapp, debounce>>

DebounceInit ==
    /\ chats = {1, 2}
    /\ conversationsCollection = <<>>
    /\ now = 0
    /\ ticks = 0
    /\ hook = [w \in Webhooks |-> HookIdle]
    /\ sweep = [s \in Sweepers |-> SweepIdle]
    /\ oracleCount = <<>>
    /\ stalled = FALSE
    /\ WhatsAppIdle
    /\ DebounceIdle

DebounceNext ==
    \/ DebounceTick
    \/ \E i \in Instances, c \in chats : debounce_handler(i, c)
    \/ \E i \in Instances, c \in chats : debounce_timeout(i, c)

DebounceSpec == DebounceInit /\ [][DebounceNext]_vars

(* ---- dispatches in flight ---------------------------------------------- *)
HookDispatching(w) ==
    hook[w].pc \in {"pc_find", "pc_build", "pc_empty", "pc_oracle", "pc_send",
                    "pc_fallback", "pc_mark", "pc_apology", "pc_error",
                    "pc_fatal", "pc_return"}

SweepDispatching(s) ==
    sweep[s].pc \in {"s_find", "s_build", "s_oracle", "s_send", "s_mark",
                     "s_return"}

\* documents in "processing" that an unfinished dispatch of chat c holds
HeldProcessing(c) ==
    {d \in WithStatus(c, "processing") :
        \/ \E w \in Webhooks : /\ HookDispatching(w)
                               /\ d \in hook[w].claimed \cup hook[w].batch
        \/ \E s \in Sweepers : /\ SweepDispatching(s)
                               /\ d \in sweep[s].claimed \cup sweep[s].batch}

\* this step moves a document of chat c to "processing"
ClaimStep(c) ==
    \E d \in DocIds : /\ conversationsCollection[d].chatId = c
                      /\ conversationsCollection[d].status # "processing"
                      /\ conversationsCollection'[d].status = "processing"

(* ---- claims ------------------------------------------------------------ *)
\* No event was delivered twice and no invocation was suspended for a batch
\* window or longer between two of its steps.  The safety claims below are
\* stated for such runs, so that a violation rests neither on a re-delivery nor
\* on a stalled handler.
NoRedelivery ==
    \A d1, d2 \in DocIds :
        (/\ conversationsCollection[d1].chatId = conversationsCollection[d2].chatId
         /\ conversationsCollection[d1].message_id = conversationsCollection[d2].message_id)
            => d1 = d2

Undisturbed == ~stalled /\ NoRedelivery

\* C1 (single flight): no step moves a message of a conversation to
\* "processing" while an earlier, unfinished dispatch still holds messages of
\* that conversation in "processing".
C1_SingleFlight ==
    [][\A c \in chats :
          (Undisturbed /\ ClaimStep(c)) => HeldProcessing(c) = {}]_vars

\* C2 (no message answered twice): every stored message is claimed content of
\* at most one oracle invocation, whichever entry point made it.
C2_AnsweredAtMostOnce ==
    Undisturbed =>
        \A d \in DocIds :
            oracleCount[d].hook + oracleCount[d].sweep + oracleCount[d].process <= 1

\* C3 (at-most-one dispatch): of the invocations that attempted to claim the
\* same messages, at most one proceeds past its claim; two invocations never
\* both stand right after their claim with a common claimed message.
C3_AtMostOneDispatch ==
    Undisturbed =>
        /\ \A w1, w2 \in Webhooks :
              (w1 # w2 /\ hook[w1].pc = "pc_find" /\ hook[w2].pc = "pc_find")
                  => hook[w1].claimed \cap hook[w2].claimed = {}
        /\ \A w \in Webhooks, s \in Sweepers :
              (hook[w].pc = "pc_find" /\ sweep[s].pc = "s_find")
                  => hook[w].claimed \cap sweep[s].claimed = {}
        /\ \A s1, s2 \in Sweepers :
              (s1 # s2 /\ sweep[s1].pc = "s_find" /\ sweep[s2].pc = "s_find")
                  => sweep[s1].claimed \cap sweep[s2].claimed = {}

\* C4 (webhook and sweep are safe to race): no message is claimed content of an
\* oracle call of a webhook dispatch and also of an oracle call of a cron or
\* manual sweep.
C4_WebhookSweepRace ==
    Undisturbed =>
        \A d \in DocIds : ~(oracleCount[d].hook >= 1 /\ oracleCount[d].sweep >= 1)

\* C5 (no early dispatch): a message is moved to "processing" only at a time
\* at least one quiet period after the newest pending message of its
\* conversation was received.  The quiet period is taken as the shorter of the
\* two configured delays, so a violation is one for either reading.
C5_NoEarlyDispatch ==
    [][\A c \in chats :
          (Undisturbed /\ ClaimStep(c)) =>
              \A d \in WithStatus(c, "pending") :
                  now - conversationsCollection[d].timestamp >= BATCH_TIME_WINDOW_MS]_vars

\* C6 (guaranteed re-evaluation): once every handler has returned and no
\* further inbound message arrives, a pending message that is not waiting for
\* a later time is eventually claimed.
C6_EventuallyClaimed ==
    \A d \in 1..MaxEvents :
        (/\ \A w \in Webhooks : hook[w].pc = "done"
         /\ d \in DocIds
         /\ conversationsCollection[d].status = "pending"
         /\ conversationsCollection[d].waitUntil <= now)
            ~> (d \in DocIds /\ conversationsCollection[d].status # "pending")

\* C7 (terminal statuses are immutable): no step changes the status of a
\* message that is "processed" or "error".
C7_TerminalImmutable ==
    [][\A d \in DocIds :
          (Undisturbed /\ conversationsCollection[d].status \in {"processed", "error"})
              => conversationsCollection'[d].status = conversationsCollection[d].status]_vars

\* C8 (failure semantics): when a dispatch that claimed messages returns after
\* a failure (oracle, delivery, assembler), each message it claimed is "error".
Failures == {"failed", "oracle_failed", "unsent"}

HookFailedReturn(w) ==
    /\ hook[w].pc = "pc_return"
    /\ hook[w].outcome \in Failures
    /\ hook'[w].pc = "done"

SweepFailedReturn(s) ==
    /\ sweep[s].pc = "s_return"
    /\ sweep[s].outcome \in Failures
    /\ sweep'[s].pc \in {"idle", "s_claim"}

C8_FailureMarksError ==
    [][Undisturbed =>
          /\ \A w \in Webhooks :
                HookFailedReturn(w) =>
                    \A d \in hook[w].claimed : conversationsCollection'[d].status = "error"
          /\ \A s \in Sweepers :
                SweepFailedReturn(s) =>
                    \A d \in sweep[s].claimed : conversationsCollection'[d].status = "error"]_vars

\* C9 (idempotent ingestion): the store holds at most one record per
\* (conversation, message_id).
C9_IdempotentIngestion ==
    \A d1 \in DocIds : \A d2 \in DocIds \ {d1} :
        ~(/\ conversationsCollection[d1].chatId = conversationsCollection[d2].chatId
          /\ conversationsCollection[d1].message_id = conversationsCollection[d2].message_id)

\* C10 (a claim takes the whole eligible batch): right after a claim of
\* conversation c at time T, no message of c whose waitUntil is unset or <= T
\* is still "pending".
C10_ClaimTakesAll ==
    [][\A c \in chats :
          (Undisturbed /\ ClaimStep(c)) =>
              \A d \in DocIds :
                  (/\ conversationsCollection'[d].chatId = c
                   /\ conversationsCollection'[d].waitUntil <= now)
                      => conversationsCollection'[d].status # "pending"]_vars

\* the document a running webhook invocation stored for its own event
OwnDoc(w) ==
    CHOOSE d \in DocIds : /\ conversationsCollection[d].chatId = hook[w].chat
                          /\ conversationsCollection[d].message_id = hook[w].mid

\* the invocation returns from processMessagesForChat without claiming: the
\* burst branch (recentCount > 0) or the forced-delay branch
Deferred(w) ==
    /\ hook[w].pc \in {"pm_count", "pm_defer"}
    /\ hook'[w].pc = "done"

\* C11 (deferral extends the window): when the handler has stored message m and
\* the policy deferred, every pending message of the conversation, m included,
\* has waitUntil = m.receivedAt + quietPeriod (either configured delay is
\* accepted as the quiet period).
C11_DeferralExtends ==
    [][\A w \in Webhooks :
          (Undisturbed /\ Deferred(w)) =>
              \A d \in DocIds :
                  (/\ conversationsCollection'[d].chatId = hook[w].chat
                   /\ conversationsCollection'[d].status = "pending")
                      => conversationsCollection'[d].waitUntil \in
                            {conversationsCollection[OwnDoc(w)].timestamp + BATCH_TIME_WINDOW_MS,
                             conversationsCollection[OwnDoc(w)].timestamp + FORCED_DELAY_MS}]_vars

\* C12 (waitUntil is respected by every claim): no message moves from "pending"
\* to "processing" at a time earlier than the waitUntil it carries at that
\* moment.
C12_WaitUntilRespected ==
    [][\A d \in DocIds :
          (/\ Undisturbed
           /\ conversationsCollection[d].status = "pending"
           /\ conversationsCollection'[d].status = "processing")
              => conversationsCollection[d].waitUntil <= now]_vars

\* a batch of messages none of which resolves to a content part
NoContent(batch) == batch # {} /\ \A d \in batch : ~YieldsContent(d)

\* C13 (empty-content short-circuit): whatever processed history the
\* conversation has, a dispatch whose claimed batch resolves to no content
\* makes no oracle call and returns with every message of the batch
\* "processed".
C13_EmptyShortCircuit ==
    [][Undisturbed =>
          /\ \A w \in Webhooks :
                (/\ hook[w].pc = "pc_build"
                 /\ NoContent(hook[w].batch)
                 /\ hook'[w].pc \notin {"pc_build", "pc_fatal"})
                    => hook'[w].pc = "pc_empty"
          /\ \A w \in Webhooks :
                (/\ hook[w].pc = "pc_return"
                 /\ hook[w].outcome = "empty"
                 /\ hook'[w].pc = "done")
                    => \A d \in hook[w].batch :
                          conversationsCollection'[d].status = "processed"
          /\ \A s \in Sweepers :
                (/\ sweep[s].pc = "s_build"
                 /\ NoContent(sweep[s].batch)
                 /\ sweep'[s].pc # "s_build"
                 /\ sweep'[s].outcome # "failed")
                    => sweep'[s].outcome = "empty"
          /\ \A s \in Sweepers :
                (/\ sweep[s].pc = "s_return"
                 /\ sweep[s].outcome = "empty"
                 /\ sweep'[s].pc # "s_return")
                    => \A d \in sweep[s].batch :
                          conversationsCollection'[d].status = "processed"]_vars

\* ascending by receivedAt, equal receivedAt ordered by ascending message_id
Chronological(q) ==
    \A i, j \in 1..Len(q) :
        i < j =>
            \/ conversationsCollection[q[i]].timestamp < conversationsCollection[q[j]].timestamp
            \/ /\ conversationsCollection[q[i]].timestamp = conversationsCollection[q[j]].timestamp
               /\ conversationsCollection[q[i]].message_id <= conversationsCollection[q[j]].message_id

\* the messages of the assembled sequence that reach the oracle as content
userMessageContent(q) == SelectSeq(q, YieldsContent)

\* C14 (chronological assembly): the sequence of history and claimed messages
\* handed to the oracle is sorted ascending by receivedAt, messages of equal
\* receivedAt by ascending message_id.
C14_ChronologicalAssembly ==
    Undisturbed =>
        /\ \A w \in Webhooks :
              hook[w].pc = "pc_oracle"
                  => Chronological(userMessageContent(hook[w].all))
        /\ \A s \in Sweepers :
              sweep[s].pc = "s_oracle"
                  => Chronological(userMessageContent(sweep[s].all))

\* this step claims document d: "pending" becomes "processing"
Claimed(d) ==
    /\ conversationsCollection[d].status = "pending"
    /\ conversationsCollection'[d].status = "processing"

\* C15 (per-conversation ordering across dispatches): when a message is
\* claimed, no older message of the same conversation is left "pending"; the
\* older one was claimed before or is claimed in the same step.
C15_OlderClaimedFirst ==
    [][\A d \in DocIds :
          Claimed(d) =>
              \A e \in DocIds :
                  (/\ conversationsCollection[e].chatId = conversationsCollection[d].chatId
                   /\ conversationsCollection[e].timestamp < conversationsCollection[d].timestamp)
                      => conversationsCollection'[e].status # "pending"]_vars

\* two messages of one conversation received at different times are claimed
C15_Witness ==
    \E d, e \in DocIds :
        /\ conversationsCollection[e].chatId = conversationsCollection[d].chatId
        /\ conversationsCollection[e].timestamp < conversationsCollection[d].timestamp
        /\ conversationsCollection[d].status = "processing"
        /\ conversationsCollection[e].status = "processing"

C17_ApologyAttempted ==
    Undisturbed =>
        /\ \A w \in Webhooks :
              (/\ hook[w].pc = "pc_return"
               /\ hook[w].claimed # {}
               /\ hook[w].outcome \in {"oracle_failed", "failed"})
                  => hook[w].sends >= 1
        /\ \A s \in Sweepers :
              (/\ sweep[s].pc = "s_return"
               /\ sweep[s].claimed # {}
               /\ sweep[s].outcome \in {"oracle_failed", "failed"})
                  => sweep[s].sends >= 1

\* C18 (delivery failure is terminal as "error"): when a dispatch whose oracle
\* call succeeded and whose reply could not be delivered returns, the messages
\* of its batch are "error", not "processed".
C18_UndeliveredIsError ==
    [][Undisturbed =>
          /\ \A w \in Webhooks :
                (/\ hook[w].pc = "pc_return"
                 /\ hook[w].outcome = "unsent"
                 /\ hook'[w].pc = "done")
                    => \A d \in hook[w].batch :
                          conversationsCollection'[d].status = "error"
          /\ \A s \in Sweepers :
                (/\ sweep[s].pc = "s_return"
                 /\ sweep[s].outcome = "unsent"
                 /\ sweep'[s].pc # "s_return")
                    => \A d \in sweep[s].batch :
                          conversationsCollection'[d].status = "error"]_vars

\* C19 (exactly one fallback send): a dispatch whose primary send of the reply
\* failed returns after exactly one further send and exactly one oracle call.
C19_OneFallbackSend ==
    Undisturbed =>
        /\ \A w \in Webhooks :
              (hook[w].pc = "pc_return" /\ hook[w].outcome = "unsent")
                  => (hook[w].sends = 2 /\ hook[w].calls = 1)
        /\ \A s \in Sweepers :
              (sweep[s].pc = "s_return" /\ sweep[s].outcome = "unsent")
                  => (sweep[s].sends = 2 /\ sweep[s].calls = 1)

\* C20 (the sweep re-applies the same dispatch logic): a webhook dispatch and a
\* cron/manual dispatch of the same batch that met the same collaborator
\* outcome (oracle success, oracle failure, delivery failure, empty content)
\* return having made the same number of sends and having written the same
\* status to the batch.
C20_SameDispatchLogic ==
    Undisturbed =>
        \A w \in Webhooks, s \in Sweepers :
            (/\ hook[w].pc = "pc_return"
             /\ sweep[s].pc = "s_return"
             /\ sweep[s].kind \in {"cron", "manual"}
             /\ hook[w].batch = sweep[s].batch
             /\ hook[w].outcome \in {"sent", "oracle_failed", "unsent", "empty"}
             /\ hook[w].outcome = sweep[s].outcome)
                => (/\ hook[w].sends = sweep[s].sends
                    /\ hook[w].wrote = sweep[s].wrote)

\* the conversation an invocation is working for in this step
HookChat(w) == IF hook[w].chat # 0 THEN hook[w].chat ELSE hook'[w].chat

SweepChat(s) == IF sweep[s].chat # 0 THEN sweep[s].chat ELSE sweep'[s].chat

\* status, waitUntil and waitingForDelay of every message outside chat c stay
SameOutside(c) ==
    \A d \in DocIds :
        conversationsCollection[d].chatId # c =>
            /\ conversationsCollection'[d].status = conversationsCollection[d].status
            /\ conversationsCollection'[d].waitUntil = conversationsCollection[d].waitUntil
            /\ conversationsCollection'[d].waitingForDelay = conversationsCollection[d].waitingForDelay

\* C21 (error isolation between conversations): a step taken for one
\* conversation leaves status, waitUntil and waitingForDelay of every message
\* of any other conversation unchanged, and a sweep whose oracle call failed
\* for one conversation goes on to the next conversation of the same run.
C21_ErrorIsolation ==
    [][/\ \A w \in Webhooks : hook'[w] # hook[w] => SameOutside(HookChat(w))
       /\ \A s \in Sweepers : sweep'[s] # sweep[s] => SameOutside(SweepChat(s))
       /\ \A s \in Sweepers :
             (/\ sweep[s].pc = "s_return"
              /\ sweep[s].outcome = "oracle_failed"
              /\ sweep[s].todo \ {sweep[s].chat} # {}
              /\ sweep'[s] # sweep[s])
                 => (/\ sweep'[s].pc = "s_claim"
                     /\ sweep'[s].todo = sweep[s].todo \ {sweep[s].chat})]_vars

\* a sweep is at the oracle call for chat 2 after its oracle call or delivery
\* for chat 1 failed in the same run (chat 1's message is still "processing")
C21_Witness ==
    \E s \in Sweepers, d \in DocIds :
        /\ sweep[s].kind \in {"cron", "manual"}
        /\ sweep[s].chat = 2
        /\ sweep[s].pc = "s_oracle"
        /\ conversationsCollection[d].chatId = 1
        /\ conversationsCollection[d].status = "processing"
        /\ oracleCount[d].sweep = 1
        /\ oracleCount[d].hook = 0
        /\ oracleCount[d].process = 0

\* C22 (messages are never discarded before they are answered): a step that
\* removes documents from the store removes only documents whose status is
\* "processed" or "error".  A document that still carries a wait marker, which
\* a sweep running in time would have claimed, is not counted against the
\* statement.
C22_OnlyTerminalEvicted ==
    [][(Undisturbed /\ Len(conversationsCollection') < Len(conversationsCollection)) =>
          \A d \in Expired(now) :
              \/ conversationsCollection[d].status \in {"processed", "error"}
              \/ conversationsCollection[d].waitingForDelay]_vars

\* the messages the parts of a content come from, one entry per message (a
\* photo's two parts, prompt and image, count once)
IsFirstPart(p) == p.part # "image_url"

RECURSIVE Sources(_)
Sources(content) ==
    IF content = <<>> THEN <<>>
    ELSE (IF IsFirstPart(Head(content)) THEN <<Head(content).of>> ELSE <<>>)
             \o Sources(Tail(content))

\* every text, voice and photo message of the assembled sequence has its part
\* in the content, at its position; a message whose media failed has the fixed
\* text in its place, every other message its own content
Degraded(all, failed, content) ==
    /\ Sources(content) = userMessageContent(all)
    /\ \A i \in 1..Len(content) :
          content[i].part = "placeholder" <=> content[i].of \in failed

\* C23 (graceful media degradation): when a dispatch is about to call the
\* oracle, each message whose transcription or download failed is represented
\* by a placeholder at its position, every other text, voice or photo message
\* by its own content, and the dispatch calls the oracle at most once.
C23_MediaDegradation ==
    /\ \A w \in Webhooks :
          /\ hook[w].pc = "pc_oracle"
                => Degraded(hook[w].all, hook[w].failed, hook[w].content)
          /\ hook[w].calls <= 1
    /\ \A s \in Sweepers :
          /\ sweep[s].pc = "s_oracle"
                => Degraded(sweep[s].all, sweep[s].failed, sweep[s].content)
          /\ sweep[s].calls <= 1

\* a dispatch is at the oracle call with a batch of one voice message whose
\* transcription failed and one text message
C23_Witness ==
    \E w \in Webhooks : \E d, e \in hook[w].batch :
        /\ hook[w].pc = "pc_oracle"
        /\ conversationsCollection[d].payload = "voice"
        /\ d \in hook[w].failed
        /\ conversationsCollection[e].payload = "text"

\* the messages of an assembled sequence that came from the history query:
\* those outside the batch, and those of the batch that appear a second time
History(all, batch) ==
    {all[i] : i \in {j \in 1..Len(all) :
                       \/ all[j] \notin batch
                       \/ \E k \in 1..Len(all) : k # j /\ all[k] = all[j]}}

\* the messages a history read for chat c at time at may contain
Qualifying(c, at) ==
    {d \in DocIds :
        /\ conversationsCollection[d].chatId = c
        /\ conversationsCollection[d].status = "processed"
        /\ conversationsCollection[d].timestamp >= at - 30 * Minute}

BoundedRecent(all, batch, c, at) ==
    LET hist == History(all, batch)
    IN /\ hist \subseteq Qualifying(c, at)
       /\ Cardinality(hist) <= 15
       /\ Cardinality(Qualifying(c, at)) > 15 =>
             /\ Cardinality(hist) = 15
             /\ \A h \in hist, q \in Qualifying(c, at) \ hist :
                   conversationsCollection[h].timestamp >= conversationsCollection[q].timestamp

timeSinceLastMsg(c) ==
    now - Max({conversationsCollection[d].timestamp : d \in WithStatus(c, "pending")})

\* a pending message whose waitUntil is exactly at
DueExactly(d, at) ==
    /\ conversationsCollection[d].status = "pending"
    /\ conversationsCollection[d].waitingForDelay
    /\ conversationsCollection[d].waitUntil = at

C26_NoFastPath ==
    [][\A d \in DocIds :
          (/\ Undisturbed
           /\ Claimed(d)
           /\ WithStatus(conversationsCollection[d].chatId, "pending") = {d})
              => now >= conversationsCollection[d].timestamp + BATCH_TIME_WINDOW_MS]_vars

\* C27 (store failure during claim): when a store operation of
\* processMessagesForChat fails before or during the claim update and the
\* invocation returns, no message of the conversation has changed its status.
C27_StoreErrorKeepsPending ==
    [][\A w \in Webhooks :
          (Undisturbed /\ processMessagesForChat_catch(w)) =>
              \A d \in DocIds :
                  conversationsCollection[d].chatId = hook[w].chat =>
                      conversationsCollection'[d].status = conversationsCollection[d].status]_vars

\* this step is the whole handling of a request that is not a POST or whose
\* body has no message with a chat id
Rejected(w) ==
    /\ hook[w].pc = "idle"
    /\ hook'[w].pc = "done"
    /\ \/ hook'[w].method \in Methods \ {"POST"}
       \/ hook'[w].body \in Bodies \ {"message"}

\* C28 (invalid input is rejected before the store): a request that is not a
\* POST is answered 405, a POST without a message with a chat id 400, and the
\* handling of either stores no message, changes no stored message and sends
\* nothing.
C28_InvalidRejected ==
    [][\A w \in Webhooks :
          Rejected(w) =>
              /\ hook'[w].response =
                    (IF hook'[w].method # "POST" THEN 405 ELSE 400)
              /\ conversationsCollection' = conversationsCollection
              /\ hook'[w].sends = 0
              /\ hook'[w].calls = 0]_vars

\* a POST whose message has no chat id was answered 400 while a message of an
\* earlier request is stored
C28_Witness ==
    /\ \E w \in Webhooks :
          /\ hook[w].pc = "done"
          /\ hook[w].method = "POST"
          /\ hook[w].body = "no_chat_id"
          /\ hook[w].response = 400
    /\ conversationsCollection # <<>>

\* the documents of S whose message is neither text, voice nor photo
Unsupported(S) == {d \in S : conversationsCollection[d].payload = "video"}

\* C29 (unsupported payloads are acknowledged, never forwarded): no content
\* part handed to the oracle comes from a video or other unsupported message,
\* and a dispatch whose batch holds such a message has sent something to the
\* user by the time it returns.
C29_UnsupportedAcknowledged ==
    Undisturbed =>
        /\ \A w \in Webhooks :
              /\ \A i \in 1..Len(hook[w].content) :
                    Unsupported({hook[w].content[i].of}) = {}
              /\ (hook[w].pc = "pc_return" /\ Unsupported(hook[w].batch) # {})
                    => hook[w].sends >= 1
        /\ \A s \in Sweepers :
              /\ \A i \in 1..Len(sweep[s].content) :
                    Unsupported({sweep[s].content[i].of}) = {}
              /\ (sweep[s].pc = "s_return" /\ Unsupported(sweep[s].batch) # {})
                    => sweep[s].sends >= 1

\* in store q every document that carries a wait marker is "pending"
MarkersOnPending(q) ==
    \A d \in DOMAIN q :
        (q[d].waitingForDelay \/ q[d].waitUntil # NoTime) => q[d].status = "pending"

\* C30 (wait markers exist only on pending messages): before and after every
\* step a message with waitingForDelay = true or a waitUntil has status
\* "pending", and the step that claims a message clears both fields.
C30_WaitMarkersOnlyPending ==
    [][/\ MarkersOnPending(conversationsCollection)
       /\ MarkersOnPending(conversationsCollection')
       /\ \A d \in DocIds :
             Claimed(d) =>
                 /\ ~conversationsCollection'[d].waitingForDelay
                 /\ conversationsCollection'[d].waitUntil = NoTime]_vars

\* a sweep has just claimed a message that was waiting, while another message
\* of the store is pending and carries its wait markers
C30_Witness ==
    \E s \in Sweepers : \E d \in sweep[s].claimed : \E e \in DocIds :
        /\ sweep[s].pc = "s_find"
        /\ conversationsCollection[d].status = "processing"
        /\ ~conversationsCollection[d].waitingForDelay
        /\ conversationsCollection[d].waitUntil = NoTime
        /\ conversationsCollection[e].status = "pending"
        /\ conversationsCollection[e].waitingForDelay

\* the run s of the cron sweep is inside processConversationFromCron or at the
\* query that precedes it
CronDispatching(s) ==
    /\ sweep[s].kind = "cron"
    /\ sweep[s].pc \in {"s_find", "s_build", "s_oracle", "s_send", "s_mark", "s_return"}

\* this step is the claim of run s for its next chat, and its update modifies
\* no message
ZeroClaim(s) ==
    /\ sweep[s].pc = "s_claim"
    /\ sweep[s].kind = "cron"
    /\ sweep'[s] # sweep[s]
    /\ waitingMessagesReady(Min(sweep[s].todo), sweep[s].now) = {}

StartStep(w) ==
    /\ hook[w].pc = "idle"
    /\ hook'[w].pc = "done"
    /\ Len(conversationsCollection') = Len(conversationsCollection) + 1
    /\ conversationsCollection'[Len(conversationsCollection')].payload = "start"

\* every stored '/start' is "processed" and carries no wait marker, and no
\* content part of a dispatch comes from one
StartOutsideCycle ==
    /\ \A d \in DocIds :
          conversationsCollection[d].payload = "start" =>
              /\ conversationsCollection[d].status = "processed"
              /\ ~conversationsCollection[d].waitingForDelay
              /\ conversationsCollection[d].waitUntil = NoTime
              /\ oracleCount[d] = [hook |-> 0, sweep |-> 0, process |-> 0]
    /\ \A w \in Webhooks : \A i \in 1..Len(hook[w].content) :
          conversationsCollection[hook[w].content[i].of].payload # "start"
    /\ \A s \in Sweepers : \A i \in 1..Len(sweep[s].content) :
          conversationsCollection[sweep[s].content[i].of].payload # "start"

\* C32 ('/start' is handled outside the accumulation cycle): the step that
\* handles '/start' stores it as "processed", sends one message, calls no
\* oracle, and leaves every other message, every oracle counter and every
\* sweep as they were; a stored '/start' is never pending, never claimed and
\* never the source of a content part.
C32_StartOutsideCycle ==
    [][/\ StartOutsideCycle
       /\ StartOutsideCycle'
       /\ \A w \in Webhooks :
             StartStep(w) =>
                 /\ hook'[w].sends = 1
                 /\ hook'[w].calls = 0
                 /\ hook'[w].claimed = {}
                 /\ \A d \in DocIds :
                       /\ conversationsCollection'[d] = conversationsCollection[d]
                       /\ oracleCount'[d] = oracleCount[d]
                 /\ UNCHANGED sweep]_vars

\* a sweep is about to call the oracle with a '/start' of the conversation
\* among the messages it assembled, after the greeting was sent
C32_Witness ==
    \E s \in Sweepers : \E i \in 1..Len(sweep[s].all) : \E w \in Webhooks :
        /\ sweep[s].pc = "s_oracle"
        /\ conversationsCollection[sweep[s].all[i]].payload = "start"
        /\ sweep[s].content # <<>>
        /\ hook[w].outcome = "greeted"

\* C33 (sweep endpoint authorization): a cron run started by a request that
\* the scheduler did not issue carries the secret in its Authorization header,
\* and every other such request is answered 401.
C33_ManualNeedsSecret ==
    \A s \in Sweepers :
        (sweep[s].request.issuer = "manual" /\ sweep[s].request.authorization # "secret")
            => (sweep[s].pc = "idle" /\ sweep[s].response = 401)

\* this step is addMessage(u, ...)
Added(u) ==
    /\ received' = received + 1
    /\ conversations'[u] # conversations[u]

\* C34 (WhatsApp conversation expiry): when a message is added for a user
\* whose stored conversation was last updated more than 30 minutes ago, the
\* history that addMessage returns holds the system entry and that message
\* only.
C34_ExpiredStartsFresh ==
    [][\A u \in WaUsers :
          (Added(u) /\ Lapsed(u, now)) =>
              /\ Len(conversations'[u].messages) = 2
              /\ conversations'[u].messages[1].role = "system"
              /\ conversations'[u].messages[2].n = received']_vars

\* a stored history is bounded and well formed: at most 11 entries, a system
\* entry with one of the prompts first, then messages of the user and the
\* assistant in the order they were added
WellFormed(q) ==
    /\ Len(q) <= 11
    /\ q[1].role = "system"
    /\ q[1].content \in SYSTEM_MESSAGES
    /\ \A i \in 2..Len(q) : q[i].role \in {"user", "assistant"}
    /\ \A i, j \in 2..Len(q) : i < j => q[i].n < q[j].n

AllWellFormed(m) ==
    \A u \in WaUsers : m[u] # NoConversation => WellFormed(m[u].messages)

\* the last ten of the messages q
MostRecentTen(q) == IF Len(q) > 10 THEN SubSeq(q, Len(q) - 9, Len(q)) ELSE q

\* C35 (WhatsApp history bound): every stored history has at most 11 entries,
\* starts with a system entry and goes on with user and assistant messages in
\* arrival order; adding a message keeps the system entry and leaves the ten
\* most recent of the earlier messages and the new one; a change of mode
\* replaces the system entry and nothing else.
C35_HistoryBound ==
    [][/\ AllWellFormed(conversations)
       /\ AllWellFormed(conversations')
       /\ \A u \in WaUsers :
             /\ Added(u) =>
                   LET before == IF conversations[u] = NoConversation
                                 THEN <<SystemMessage("default")>>
                                 ELSE conversations[u].messages
                       after == conversations'[u].messages
                   IN /\ after[1] = before[1]
                      /\ Tail(after) =
                            MostRecentTen(Append(Tail(before),
                                                 after[Len(after)]))
                      /\ after[Len(after)].n = received'
             /\ (/\ received' = received
                 /\ conversations[u] # NoConversation
                 /\ conversations'[u] # NoConversation) =>
                   Tail(conversations'[u].messages) = Tail(conversations[u].messages)]_vars

\* a full history whose oldest messages were dropped, under a prompt other
\* than the default one
C35_Witness ==
    \E u \in WaUsers :
        /\ conversations[u] # NoConversation
        /\ Len(conversations[u].messages) = 11
        /\ conversations[u].messages[1].content # "default"
        /\ conversations[u].messages[11].n = MaxInbound
        /\ conversations[u].messages[2].n = MaxInbound - 9

\* the instances in which a timer of chat c is armed
Armed(c) == {i \in Instances : debounceTimers[i][c] # NoTimer}

\* the message of chat c received last
LastArrived(c) == Max({k \in 1..Len(arrived) : arrived[k] = c})

\* C36 (in-memory debounce): at most one timer per chat is armed at any time;
\* the step in which a timer fires calls processMessage once, on the most
\* recently received message of the chat, and removes the chat's timer and
\* stored message.
C36_OneTimerPerChat ==
    [][\A c \in chats :
          /\ Cardinality(Armed(c)) <= 1
          /\ \A i \in Instances :
                (debounceTimers[i][c] # NoTimer /\ debounceTimers'[i][c] = NoTimer) =>
                    /\ Len(processed') = Len(processed) + 1
                    /\ processed'[Len(processed')] =
                          [chat |-> c, message |-> LastArrived(c)]
                    /\ lastMessageData'[i][c] = NoMessage
                    /\ Armed(c)' = {}]_vars
====
